---- MODULE Spec2Model ----
(***************************************************************************)
(* Telemetry server (app.py): the Live serial reader, the simulation       *)
(* generator, the start/stop control handlers, the websocket observers and *)
(* the broadcast fan-out, as asyncio tasks on one event loop.  A task runs  *)
(* atomically from one await that suspends to the next; each action below   *)
(* is one such block.                                                       *)
(***************************************************************************)
EXTENDS Integers, Sequences, FiniteSets, TLC

\* ---------------------------------------------------------------- bounds
MaxTasks == 2          \* simulation tasks created in one run of the model
MaxLines == 3          \* lines the transport supplies in one run of the model
ClockStep == 7500      \* granularity (ms) at which the wall clock is observed
MaxRows == 3           \* rows appended to the store when it is examined by itself

\* ------------------------------------------------------- program constants
simulation_duration_ms == 15000

Observers == {"w1", "w2"}          \* websocket connections
TaskIds == 1..MaxTasks             \* simulation_runner tasks, in creation order
WallClock == {1000}                \* a reading of int(time.time() * 1000)

\* Values of a raw field: a number, a string that int() and float() reject,
\* JSON null, or the key is not in the mapping.
Num(v) == [k |-> "num", v |-> v]
NonNumeric == [k |-> "str", v |-> 0]
Null == [k |-> "null", v |-> 0]
Absent == [k |-> "absent", v |-> 0]

NoTask == 0                        \* simulation_task = None
\* latest_sample = {} (no sample yet)
NoSample == [src |-> "none", task |-> 0, n |-> 0, t_ms |-> 0, lap |-> 0]
\* the call raised an exception instead of returning a sample
Raised == [src |-> "raise", task |-> 0, n |-> 0, t_ms |-> 0, lap |-> 0]

Range(s) == {s[i] : i \in 1..Len(s)}

\* The environments explored: how many generator tasks are started, how many
\* lines the transport supplies, which observers connect in one run, and
\* whether the platform gives a serial port to one handle at a time (Windows
\* COM ports) or lets it be opened again while a handle is held (POSIX ttys).
Budgets ==
    {[tasks |-> MaxTasks, lines |-> 0, obs |-> {}, exclusive |-> FALSE],
     [tasks |-> 1, lines |-> MaxLines - 1, obs |-> {}, exclusive |-> FALSE],
     [tasks |-> 1, lines |-> 1, obs |-> Observers, exclusive |-> FALSE],
     [tasks |-> 0, lines |-> MaxLines, obs |-> Observers, exclusive |-> FALSE],
     [tasks |-> 2, lines |-> 0, obs |-> {"w1"}, exclusive |-> FALSE]}

\* --------------------------------------------------------------- transport
\* What json.loads makes of a line: garbage raises JSONDecodeError, a JSON
\* scalar or list decodes to a value that is no mapping, a JSON object decodes
\* to a dict.
RawInputs == {[t |-> Num(10), lap |-> Num(1), A |-> Num(50000), torque |-> Absent]}
NoRaw == [t |-> Absent, lap |-> Absent, A |-> Absent, torque |-> Absent]
LineInputs ==
    {[kind |-> "garbage", raw |-> NoRaw], [kind |-> "nonmap", raw |-> NoRaw]}
    \cup {[kind |-> "rec", raw |-> r] : r \in RawInputs}

json_loads(line) ==
    [decoded |-> line.kind # "garbage", mapping |-> line.kind = "rec",
     fields |-> line.raw]

\* int(x) of Python raises TypeError on None and ValueError on such a string
IntRaises(x) == x.k # "num"

\* float(x) raises on a string that is no number
FloatRaises(x) == x.k # "num"

\* raw.get(key): None when the key is not in the mapping
raw_get(x) == IF x = Absent THEN Null ELSE x

\* The torque model's constants (the defaults of K_T, GEAR_RATIO and EFF).
\* Currents and torques are fixed-point numbers in thousandths: 0.06, 10.0
\* and 0.9 are 60, 10000 and 900, and FMul is the product of two of them.
K_T_NM_PER_AMP == 60
GEAR_RATIO == 10000
DRIVETRAIN_EFF == 900
FMul(a, b) == (a * b) \div 1000

\* Mutant of derive_torque: the estimate from the current replaces a torque
\* that the record supplies.
derive_torque_overwrite(torque, A) ==
    IF A # Null
    THEN IF FloatRaises(A) THEN Null
         ELSE Num(FMul(FMul(FMul(A.v, K_T_NM_PER_AMP), GEAR_RATIO), DRIVETRAIN_EFF))
    ELSE torque

\* `if torque is None and A is not None:` the estimate from the current, None
\* when float(A) raises; the raw torque otherwise
derive_torque(torque, A) ==
    IF torque = Null /\ A # Null
    THEN IF FloatRaises(A) THEN Null
         ELSE Num(FMul(FMul(FMul(A.v, K_T_NM_PER_AMP), GEAR_RATIO), DRIVETRAIN_EFF))
    ELSE torque

\* the call raised an exception instead of returning the fields
FieldsRaised == [raised |-> TRUE, t_ms |-> 0, lap |-> 0, torque |-> Null]

\* enrich_sample on a mapping: t_ms is int(t) and the server time when t is
\* None; lap is int(raw.get("lap", 0)); int raises on a value that is no
\* number and nothing catches it.
enrich_sample_fields(fields, now) ==
    LET t_val == IF raw_get(fields.t) = Null THEN Num(now) ELSE fields.t
        lapv == IF fields.lap = Absent THEN Num(0) ELSE fields.lap
    IN IF IntRaises(t_val) \/ IntRaises(lapv) THEN FieldsRaised
       ELSE [raised |-> FALSE, t_ms |-> t_val.v, lap |-> lapv.v,
             torque |-> derive_torque(raw_get(fields.torque), raw_get(fields.A))]

\* enrich_sample(raw): raw.get on a value that is no dict raises
\* AttributeError.  In the server's runs a sample is followed through the
\* store and the observers by the line's id, its timestamp and its lap.
enrich_sample(raw, id, now) ==
    IF ~raw.mapping THEN Raised
    ELSE LET e == enrich_sample_fields(raw.fields, now)
         IN IF e.raised THEN Raised
            ELSE [src |-> "live", task |-> 0, n |-> id, t_ms |-> e.t_ms, lap |-> e.lap]

VARIABLES
    simulation_mode,   \* the shared mode flag (True = Simulated)
    simulation_task,   \* handle of the last created generator task, or NoTask
    clients,           \* the subscriber set
    latest_sample,     \* the latest sample, or NoSample
    store,             \* rows of table samples, in insertion (id) order
    rpc,               \* serial_reader: where the task is suspended
    ser,               \* serial_reader holds an open Serial handle
    buf,               \* the transport's input buffer: lines not read yet
    rit,               \* serial_reader's broadcast in progress, or NoIter
    nlines,            \* lines supplied so far
    runners,           \* simulation_runner tasks
    stopping,          \* stop_simulation handlers in their grace-period sleep
    response,          \* what a control handler returned in the last step, if one did
    wpc,               \* ws_endpoint handler of each connection
    conn,              \* the connection is up (a send on it succeeds)
    inbox,             \* messages each connection has received, in order
    budget             \* what the environment does in this run (see Budgets)

vars == <<simulation_mode, simulation_task, clients, latest_sample, store, rpc,
          ser, buf, rit, nlines, runners, stopping, response, wpc, conn, inbox, budget>>

NoIter == [sample |-> NoSample, snap |-> {}, visited |-> {}, dead |-> {}]
NoRunner == [pc |-> "none", elapsed_ms |-> 0, start_time |-> 0, it |-> NoIter]

Init ==
    /\ simulation_mode = FALSE
    /\ simulation_task = NoTask
    /\ clients = {}
    /\ latest_sample = NoSample
    /\ store = <<>>
    /\ rpc = "outer"
    /\ ser = FALSE
    /\ buf = <<>>
    /\ rit = NoIter
    /\ nlines = 0
    /\ runners = [r \in TaskIds |-> NoRunner]
    /\ stopping = 0
    /\ response = "none"
    /\ wpc = [w \in Observers |-> "idle"]
    /\ conn = [w \in Observers |-> FALSE]
    /\ inbox = [w \in Observers |-> <<>>]
    /\ budget \in Budgets

\* A simulation_runner task is "created" until it first runs, "ready" when its
\* sleep(0.1) is over, "sleep" and "bcast" while it awaits; "done" after line
\* 292 and "crashed" when an exception ended it.
Started(r) == runners[r].pc \in {"sleep", "ready", "bcast"}
Alive(r) == runners[r].pc \in {"created", "sleep", "ready", "bcast"}
Created == {r \in TaskIds : runners[r].pc # "none"}

\* The event loop is free for another task: serial_reader is suspended in an
\* await.  rpc = "run" is serial_reader at the top of its inner loop without
\* having yielded.
LoopFree == rpc # "run"

\* ---------------------------------------------------------------- broadcast
\* broadcast(sample) iterates the live set `clients` and awaits one send per
\* handle; other tasks run while a send is awaited.  The iterator remembers
\* the set's size: its next() raises RuntimeError when the size has changed,
\* and goes on over the table as it then is when the size is the same (so a
\* handle added meanwhile may be yielded or passed over).
IterBegin(sample) ==
    [sample |-> sample, snap |-> clients, visited |-> {}, dead |-> {}]

IterRaises(it) == Cardinality(clients) # Cardinality(it.snap)

IterCandidates(it) == IF IterRaises(it) THEN {} ELSE clients \ it.visited

IterExhausted(it) ==
    ~IterRaises(it) /\ ((it.snap \cap clients) \ it.visited) = {}

\* Mutant of send_text: the message overtakes those sent before it.
send_text_front(w, sample) ==
    inbox' = IF conn[w] THEN [inbox EXCEPT ![w] = <<sample>> \o @] ELSE inbox

\* await ws.send_text(json.dumps(sample)): the message is handed to the
\* connection, or the send raises and the handle is appended to dead.
send_text(w, sample) ==
    inbox' = IF conn[w] THEN [inbox EXCEPT ![w] = Append(@, sample)] ELSE inbox

IterAfterSend(it, w) ==
    [it EXCEPT !.visited = @ \cup {w},
               !.dead = IF conn[w] THEN @ ELSE @ \cup {w}]

\* for ws in dead: clients.discard(ws)
Pruned(it) == clients \ it.dead

\* insert_sample(s): one more row in table samples
insert_sample(s) == Append(store, s)

\* ------------------------------------------------------------ serial_reader
\* Mutant of ReaderSuppressed: serial_reader does not look at the mode flag.
ReaderSuppressed_ignored == FALSE

\* `if simulation_mode:` at the top of both loops of serial_reader
ReaderSuppressed == simulation_mode

\* The task is at the top of the outer loop when it first runs ("outer") and
\* when its sleep(0.1) or sleep(1.0) is over.
\* Simulated mode: await asyncio.sleep(0.1)
reader_wait_sim ==
    /\ rpc \in {"outer", "sleep_sim", "backoff"} /\ ReaderSuppressed
    /\ rpc' = "sleep_sim"
    /\ response' = "none"
    /\ UNCHANGED <<simulation_mode, simulation_task, clients, latest_sample, store,
                   ser, buf, rit, nlines, runners, stopping, wpc, conn, inbox, budget>>

\* What serial.Serial(...) can do: open the port, or raise.  `ser` is still
\* bound to the handle of the previous pass when the new one is constructed
\* (nothing closes it), and a port that admits one handle refuses the open.
OpenOutcomes == IF budget.exclusive /\ ser THEN {FALSE} ELSE BOOLEAN

\* serial.Serial(...) opens the port and reset_input_buffer() drops what the
\* transport has buffered; the task goes on into the inner loop.  When the
\* open raises, the task sleeps the 1.0 s backoff.
reader_open ==
    /\ rpc \in {"outer", "sleep_sim", "backoff"} /\ ~ReaderSuppressed
    /\ \E opened \in OpenOutcomes :
         IF opened
         THEN ser' = TRUE /\ buf' = <<>> /\ rpc' = "run"
         ELSE rpc' = "backoff" /\ UNCHANGED <<ser, buf>>
    /\ response' = "none"
    /\ UNCHANGED <<simulation_mode, simulation_task, clients, latest_sample, store,
                   rit, nlines, runners, stopping, wpc, conn, inbox, budget>>

\* the sleep(0.001) after an empty line is over: back to the inner loop
reader_wake ==
    /\ rpc = "sleep_empty"
    /\ rpc' = "run"
    /\ response' = "none"
    /\ UNCHANGED <<simulation_mode, simulation_task, clients, latest_sample, store,
                   ser, buf, rit, nlines, runners, stopping, wpc, conn, inbox, budget>>

\* inner loop, Simulated mode: break, and the outer loop's check sleeps 0.1 s;
\* ser is left open
reader_break ==
    /\ rpc = "run" /\ ReaderSuppressed
    /\ rpc' = "sleep_sim"
    /\ response' = "none"
    /\ UNCHANGED <<simulation_mode, simulation_task, clients, latest_sample, store,
                   ser, buf, rit, nlines, runners, stopping, wpc, conn, inbox, budget>>

\* readline() times out with nothing buffered: await asyncio.sleep(0.001)
reader_read_empty ==
    /\ rpc = "run" /\ ~ReaderSuppressed /\ buf = <<>>
    /\ rpc' = "sleep_empty"
    /\ response' = "none"
    /\ UNCHANGED <<simulation_mode, simulation_task, clients, latest_sample, store,
                   ser, buf, rit, nlines, runners, stopping, wpc, conn, inbox, budget>>

\* readline() raises (port unplugged): except Exception, sleep 1.0 s
reader_read_error ==
    /\ rpc = "run" /\ ~ReaderSuppressed
    /\ rpc' = "backoff"
    /\ response' = "none"
    /\ UNCHANGED <<simulation_mode, simulation_task, clients, latest_sample, store,
                   ser, buf, rit, nlines, runners, stopping, wpc, conn, inbox, budget>>

\* json.loads raises JSONDecodeError: continue, without an await
reader_read_garbage ==
    /\ rpc = "run" /\ ~ReaderSuppressed /\ buf # <<>>
    /\ ~json_loads(Head(buf)).decoded
    /\ buf' = Tail(buf)
    /\ response' = "none"
    /\ UNCHANGED <<simulation_mode, simulation_task, clients, latest_sample, store,
                   rpc, ser, rit, nlines, runners, stopping, wpc, conn, inbox, budget>>

\* a line that json.loads decodes: enrich_sample, latest_sample, insert_sample
\* and the start of broadcast, up to its first awaited send.  An exception of
\* enrich_sample or insert_sample reaches `except Exception` (sleep 1.0 s).
\* With no subscriber broadcast awaits nothing and the loop goes on.
reader_read_record ==
    /\ rpc = "run" /\ ~ReaderSuppressed /\ buf # <<>>
    /\ json_loads(Head(buf)).decoded
    /\ buf' = Tail(buf)
    /\ \E now \in WallClock, db_ok \in BOOLEAN :
         LET sample == enrich_sample(json_loads(Head(buf)), Head(buf).id, now) IN
         IF sample = Raised
         THEN rpc' = "backoff" /\ UNCHANGED <<latest_sample, store, rit, inbox>>
         ELSE /\ latest_sample' = sample
              /\ IF ~db_ok
                 THEN rpc' = "backoff" /\ UNCHANGED <<store, rit, inbox>>
                 ELSE /\ store' = insert_sample(sample)
                      /\ IF clients = {}
                         THEN rpc' = "run" /\ UNCHANGED <<rit, inbox>>
                         ELSE \E w \in clients :
                                /\ send_text(w, sample)
                                /\ rit' = IterAfterSend(IterBegin(sample), w)
                                /\ rpc' = "bcast"
    /\ response' = "none"
    /\ UNCHANGED <<simulation_mode, simulation_task, clients, ser, nlines, runners,
                   stopping, wpc, conn, budget>>

\* broadcast resumed: next() raises RuntimeError, which serial_reader's
\* `except Exception` takes for a transport failure
reader_bcast_raise ==
    /\ rpc = "bcast" /\ IterRaises(rit)
    /\ rpc' = "backoff" /\ rit' = NoIter
    /\ response' = "none"
    /\ UNCHANGED <<simulation_mode, simulation_task, clients, latest_sample, store,
                   ser, buf, nlines, runners, stopping, wpc, conn, inbox, budget>>

\* broadcast resumed: the next handle's send
reader_bcast_send ==
    /\ rpc = "bcast"
    /\ \E w \in IterCandidates(rit) :
         /\ send_text(w, rit.sample)
         /\ rit' = IterAfterSend(rit, w)
    /\ response' = "none"
    /\ UNCHANGED <<simulation_mode, simulation_task, clients, latest_sample, store,
                   rpc, ser, buf, nlines, runners, stopping, wpc, conn, budget>>

\* broadcast resumed: the loop is over, dead handles are discarded, and
\* serial_reader is back at the top of its inner loop
reader_bcast_done ==
    /\ rpc = "bcast" /\ IterExhausted(rit)
    /\ clients' = Pruned(rit)
    /\ rpc' = "run" /\ rit' = NoIter
    /\ response' = "none"
    /\ UNCHANGED <<simulation_mode, simulation_task, latest_sample, store, ser, buf,
                   nlines, runners, stopping, wpc, conn, inbox, budget>>

\* When a line arrives: 0 in Simulated mode, and in Live mode 1 + the number of
\* simulations started so far.
Arrival == IF simulation_mode THEN 0 ELSE 1 + Cardinality(Created)

\* the transport delivers a line into the input buffer of the open port
supply ==
    /\ ser /\ nlines < budget.lines
    /\ \E line \in LineInputs :
         buf' = Append(buf, [kind |-> line.kind, raw |-> line.raw, id |-> nlines + 1,
                             arrived |-> Arrival])
    /\ nlines' = nlines + 1
    /\ response' = "none"
    /\ UNCHANGED <<simulation_mode, simulation_task, clients, latest_sample, store,
                   rpc, ser, rit, runners, stopping, wpc, conn, inbox, budget>>

\* -------------------------------------------------------- simulation_runner
Ended(pc) == [NoRunner EXCEPT !.pc = pc]

\* `while simulation_mode` is false, or elapsed_ms >= simulation_duration_ms:
\* the loop is left and line 292 sets the flag to Live
RunnerLeaves(r) ==
    \/ ~simulation_mode
    \/ runners[r].pc = "ready" /\ runners[r].elapsed_ms >= simulation_duration_ms

\* the task runs from its creation or from its sleep(0.1) to the top of the
\* loop and leaves it
runner_exit(r) ==
    /\ LoopFree /\ runners[r].pc \in {"created", "ready"}
    /\ RunnerLeaves(r)
    /\ simulation_mode' = FALSE
    /\ runners' = [runners EXCEPT ![r] = Ended("done")]
    /\ response' = "none"
    /\ UNCHANGED <<simulation_task, clients, latest_sample, store, rpc, ser, buf, rit,
                   nlines, stopping, wpc, conn, inbox, budget>>

\* one tick: the sample is built, becomes latest_sample, is inserted and its
\* broadcast runs up to the first awaited send, or to sleep(0.1) when there is
\* no subscriber.  An exception of insert_sample ends the task: nothing in
\* simulation_runner catches it and line 292 is not reached.
runner_tick(r) ==
    /\ LoopFree /\ runners[r].pc \in {"created", "ready"}
    /\ ~RunnerLeaves(r)
    /\ \E now \in WallClock, db_ok \in BOOLEAN :
         LET start_time == IF runners[r].pc = "created" THEN now
                           ELSE runners[r].start_time
             elapsed_ms == IF runners[r].pc = "created" THEN 0
                           ELSE runners[r].elapsed_ms
             sample == [src |-> "sim", task |-> r, n |-> elapsed_ms,
                        t_ms |-> elapsed_ms + start_time, lap |-> 1]
             me == [runners[r] EXCEPT !.start_time = start_time,
                                      !.elapsed_ms = elapsed_ms]
         IN /\ latest_sample' = sample
            /\ IF ~db_ok
               THEN /\ runners' = [runners EXCEPT ![r] = Ended("crashed")]
                    /\ UNCHANGED <<store, inbox, budget>>
               ELSE /\ store' = insert_sample(sample)
                    /\ IF clients = {}
                       THEN /\ runners' = [runners EXCEPT ![r] = [me EXCEPT !.pc = "sleep"]]
                            /\ UNCHANGED inbox
                       ELSE \E w \in clients :
                              /\ send_text(w, sample)
                              /\ runners' = [runners EXCEPT ![r] =
                                    [me EXCEPT !.pc = "bcast",
                                               !.it = IterAfterSend(IterBegin(sample), w)]]
    /\ response' = "none"
    /\ UNCHANGED <<simulation_mode, simulation_task, clients, rpc, ser, buf, rit,
                   nlines, stopping, wpc, conn, budget>>

\* broadcast resumed: next() raises RuntimeError and the task ends with it
runner_bcast_raise(r) ==
    /\ LoopFree /\ runners[r].pc = "bcast" /\ IterRaises(runners[r].it)
    /\ runners' = [runners EXCEPT ![r] = Ended("crashed")]
    /\ response' = "none"
    /\ UNCHANGED <<simulation_mode, simulation_task, clients, latest_sample, store,
                   rpc, ser, buf, rit, nlines, stopping, wpc, conn, inbox, budget>>

\* broadcast resumed: the next handle's send
runner_bcast_send(r) ==
    /\ LoopFree /\ runners[r].pc = "bcast"
    /\ \E w \in IterCandidates(runners[r].it) :
         /\ send_text(w, runners[r].it.sample)
         /\ runners' = [runners EXCEPT ![r].it = IterAfterSend(@, w)]
    /\ response' = "none"
    /\ UNCHANGED <<simulation_mode, simulation_task, clients, latest_sample, store,
                   rpc, ser, buf, rit, nlines, stopping, wpc, conn, budget>>

\* broadcast resumed: the loop is over, dead handles are discarded, and the
\* task awaits asyncio.sleep(0.1)
runner_bcast_done(r) ==
    /\ LoopFree /\ runners[r].pc = "bcast" /\ IterExhausted(runners[r].it)
    /\ clients' = Pruned(runners[r].it)
    /\ runners' = [runners EXCEPT ![r].pc = "sleep", ![r].it = NoIter]
    /\ response' = "none"
    /\ UNCHANGED <<simulation_mode, simulation_task, latest_sample, store, rpc, ser,
                   buf, rit, nlines, stopping, wpc, conn, inbox, budget>>

\* the wall clock is seen to advance: time.time() of every generator that has
\* taken its start_time reads ClockStep more, and a sleep(0.1) that was
\* pending is over
Ticking(r) == Started(r) /\ runners[r].elapsed_ms < simulation_duration_ms

clock_tick ==
    /\ \E r \in TaskIds : Ticking(r)
    /\ runners' = [r \in TaskIds |->
                     IF Ticking(r)
                     THEN [runners[r] EXCEPT
                              !.elapsed_ms = @ + ClockStep,
                              !.pc = IF @ = "sleep" THEN "ready" ELSE @]
                     ELSE runners[r]]
    /\ response' = "none"
    /\ UNCHANGED <<simulation_mode, simulation_task, clients, latest_sample, store,
                   rpc, ser, buf, rit, nlines, stopping, wpc, conn, inbox, budget>>

\* --------------------------------------------------------- control handlers
\* asyncio.create_task(simulation_runner()): the next task, not yet run
create_task == [runners EXCEPT ![Cardinality(Created) + 1].pc = "created"]

\* Mutant of start_simulation: the `if not simulation_mode` test is missing.
start_simulation_unguarded ==
    /\ LoopFree
    /\ Cardinality(Created) < budget.tasks
    /\ simulation_mode' = TRUE
    /\ runners' = create_task
    /\ simulation_task' = Cardinality(Created) + 1
    /\ response' = "simulation started"
    /\ UNCHANGED <<clients, latest_sample, store, rpc, ser, buf, rit, nlines,
                   stopping, wpc, conn, inbox, budget>>

\* POST /api/simulation/start (no await: one block)
start_simulation ==
    /\ LoopFree
    /\ IF ~simulation_mode
       THEN /\ Cardinality(Created) < budget.tasks
            /\ simulation_mode' = TRUE
            /\ runners' = create_task
            /\ simulation_task' = Cardinality(Created) + 1
            /\ response' = "simulation started"
       ELSE /\ response' = "simulation already running"
            /\ UNCHANGED <<simulation_mode, simulation_task, runners, budget>>
    /\ UNCHANGED <<clients, latest_sample, store, rpc, ser, buf, rit, nlines,
                   stopping, wpc, conn, inbox, budget>>

\* POST /api/simulation/stop, up to its await asyncio.sleep(0.2)
stop_simulation ==
    /\ LoopFree
    /\ IF simulation_mode
       THEN /\ simulation_mode' = FALSE
            /\ IF simulation_task # NoTask
               THEN stopping' = stopping + 1 /\ response' = "none"
               ELSE response' = "simulation stopped" /\ UNCHANGED stopping
       ELSE /\ response' = "simulation not running"
            /\ UNCHANGED <<simulation_mode, stopping, budget>>
    /\ UNCHANGED <<simulation_task, clients, latest_sample, store, rpc, ser, buf,
                   rit, nlines, runners, wpc, conn, inbox, budget>>

\* the grace period of a stop_simulation is over and it returns
stop_return ==
    /\ LoopFree /\ stopping > 0
    /\ stopping' = stopping - 1
    /\ response' = "simulation stopped"
    /\ UNCHANGED <<simulation_mode, simulation_task, clients, latest_sample, store,
                   rpc, ser, buf, rit, nlines, runners, wpc, conn, inbox, budget>>

\* GET /api/simulation/status
get_simulation_status == [running |-> simulation_mode]

\* -------------------------------------------------------------- ws_endpoint
\* Mutant of ws_endpoint: the handler subscribes and does not send the latest
\* sample.
ws_endpoint_nosend(w) ==
    /\ LoopFree /\ wpc[w] = "idle" /\ w \in budget.obs
    /\ clients' = clients \cup {w}
    /\ conn' = [conn EXCEPT ![w] = TRUE]
    /\ inbox' = [inbox EXCEPT ![w] = <<>>]
    /\ wpc' = [wpc EXCEPT ![w] = "open"]
    /\ response' = "none"
    /\ UNCHANGED <<simulation_mode, simulation_task, latest_sample, store, rpc, ser,
                   buf, rit, nlines, runners, stopping, budget>>

\* a connection is accepted (await websocket.accept()): clients.add, the
\* latest sample is sent if there is one, and the handler awaits
\* receive_text()
ws_endpoint(w) ==
    /\ LoopFree /\ wpc[w] = "idle" /\ w \in budget.obs
    /\ clients' = clients \cup {w}
    /\ conn' = [conn EXCEPT ![w] = TRUE]
    /\ inbox' = [inbox EXCEPT ![w] =
                    IF latest_sample # NoSample THEN <<latest_sample>> ELSE <<>>]
    /\ wpc' = [wpc EXCEPT ![w] = "open"]
    /\ response' = "none"
    /\ UNCHANGED <<simulation_mode, simulation_task, latest_sample, store, rpc, ser,
                   buf, rit, nlines, runners, stopping, budget>>

\* the peer goes away: sends on the connection fail from now on
ws_drop(w) ==
    /\ wpc[w] = "open" /\ conn[w]
    /\ conn' = [conn EXCEPT ![w] = FALSE]
    /\ response' = "none"
    /\ UNCHANGED <<simulation_mode, simulation_task, clients, latest_sample, store,
                   rpc, ser, buf, rit, nlines, runners, stopping, wpc, inbox, budget>>

\* receive_text() raises WebSocketDisconnect: clients.discard
ws_disconnect(w) ==
    /\ LoopFree /\ wpc[w] = "open" /\ ~conn[w]
    /\ clients' = clients \ {w}
    /\ wpc' = [wpc EXCEPT ![w] = "closed"]
    /\ inbox' = [inbox EXCEPT ![w] = <<>>]
    /\ response' = "none"
    /\ UNCHANGED <<simulation_mode, simulation_task, latest_sample, store, rpc, ser,
                   buf, rit, nlines, runners, stopping, conn, budget>>

\* ------------------------------------------------------------ specification
Next ==
    \/ reader_wait_sim \/ reader_open \/ reader_wake \/ reader_break
    \/ reader_read_empty \/ reader_read_error \/ reader_read_garbage
    \/ reader_read_record
    \/ reader_bcast_raise \/ reader_bcast_send \/ reader_bcast_done
    \/ supply
    \/ \E r \in TaskIds :
         \/ runner_exit(r) \/ runner_tick(r)
         \/ runner_bcast_raise(r) \/ runner_bcast_send(r) \/ runner_bcast_done(r)
    \/ clock_tick
    \/ start_simulation \/ stop_simulation \/ stop_return
    \/ \E w \in Observers :
         \/ ws_endpoint(w) \/ ws_drop(w) \/ ws_disconnect(w)

Spec == Init /\ [][Next]_vars

\* ------------------------------------------------------------------ claims
\* A row is appended to the store in this step, and it is a Live record.
LiveAppended ==
    /\ Len(store') = Len(store) + 1
    /\ store'[Len(store')].src = "live"

\* broadcast hands a Live record to a subscribed connection in this step.
LiveDelivered ==
    \E w \in Observers :
        /\ wpc[w] = "open"
        /\ Len(inbox'[w]) = Len(inbox[w]) + 1
        /\ inbox'[w][Len(inbox'[w])].src = "live"

\* C1 as stated: while the mode is Simulated no Live record is appended to
\* the store or delivered to an observer by broadcast, in-flight samples
\* included.
C1_NoLiveOutputWhileSimulated ==
    [][simulation_mode => ~(LiveAppended \/ LiveDelivered)]_vars

\* C1 amended: while the mode is Simulated no Live record is appended to the
\* store and the Live reader begins no publish (a publish it had begun before
\* start_simulation may still reach the remaining observers).
C1_NoLiveAppendOrNewPublishWhileSimulated ==
    [][(simulation_mode \/ simulation_mode')
         => ~LiveAppended /\ ~(rpc # "bcast" /\ rpc' = "bcast")]_vars

\* C1 witness: the mode is Simulated while a Live publish is in flight with
\* a subscriber still to be served.
C1_Witness ==
    /\ simulation_mode
    /\ rpc = "bcast" /\ rit.sample.src = "live"
    /\ IterCandidates(rit) # {}

\* C2: at most one simulation_runner task is alive and producing samples at
\* any instant.
C2_AtMostOneRunner ==
    simulation_mode => Cardinality({r \in TaskIds : Started(r)}) <= 1

\* C3: start_simulation in Simulated mode reports "already running" and
\* changes neither the flag, the task handle nor the tasks; stop_simulation in
\* Live mode reports "not running" and leaves the flag alone.
C3_NoOpControl ==
    [][/\ (simulation_mode
             /\ response' \in {"simulation started", "simulation already running"})
          => /\ response' = "simulation already running"
             /\ UNCHANGED <<simulation_mode, simulation_task, runners>>
       /\ (~simulation_mode /\ stopping' = stopping
             /\ response' \in {"simulation stopped", "simulation not running"})
          => /\ response' = "simulation not running"
             /\ UNCHANGED simulation_mode]_vars

\* C3 witness: start_simulation has just answered a call made in Simulated
\* mode.
C3_Witness ==
    simulation_mode /\ response = "simulation already running"

\* A publish with iteration state `it` is over in this step (`ended`) and a
\* send of it has failed: every handle it began with whose connection works
\* has been sent the sample, and when the publish ran to its end
\* (`completed`) no failed handle is left in the subscriber set while the
\* handles that were served and did not leave by themselves still are.
FailureIsolated(it, ended, completed) ==
    (ended /\ it.dead # {})
      => /\ \A w \in it.snap : conn[w] => w \in it.visited \ it.dead
         /\ completed => /\ it.dead \cap clients' = {}
                         /\ (it.visited \ it.dead) \cap clients \subseteq clients'

\* C4: a delivery failure on one handle does not prevent delivery of the
\* sample to the other handles, and the failed handle is gone from the
\* subscriber set when the publish is over.
C4_FailureIsolated ==
    [][/\ FailureIsolated(rit, rpc = "bcast" /\ rpc' # "bcast", rpc' = "run")
       /\ \A r \in TaskIds :
            FailureIsolated(runners[r].it,
                            runners[r].pc = "bcast" /\ runners'[r].pc # "bcast",
                            runners'[r].pc = "sleep")]_vars

\* C5: an observer that subscribes while a latest sample exists has that
\* sample as its first message, ahead of anything published later.
C5_LatestFirst ==
    [][\A w \in Observers :
         (wpc[w] = "idle" /\ wpc'[w] = "open" /\ latest_sample # NoSample)
           => /\ inbox[w] = <<>>
              /\ inbox'[w] = <<latest_sample>>
              /\ w \in clients']_vars

\* C5 witness: an observer that subscribed while a sample existed has since
\* been sent a later one.
C5_Witness ==
    \E w \in Observers :
        /\ wpc[w] = "open" /\ Len(inbox[w]) >= 2
        /\ inbox[w][1] # inbox[w][2]

Delivering(s) ==
    \/ rpc = "bcast" /\ rit.sample = s
    \/ \E r \in TaskIds : runners[r].pc = "bcast" /\ runners[r].it.sample = s

\* C6: a sample whose insert failed is still the latest sample and is still
\* delivered to every subscribed observer.
C6_PersistFaultTolerated ==
    (latest_sample # NoSample /\ latest_sample \notin Range(store))
      => \/ Delivering(latest_sample)
         \/ \A w \in clients : conn[w] => latest_sample \in Range(inbox[w])

\* C7: a line that is no well-formed record (garbage, or JSON that is no
\* mapping) is skipped: the reader stays in its read loop, keeping the
\* connection and the buffered input.
C7_BadLineSkipped ==
    [][(/\ rpc = "run" /\ buf # <<>> /\ buf' = Tail(buf)
        /\ Head(buf).kind \in {"garbage", "nonmap"})
         => rpc' = "run"]_vars

Persisted(id) == \E i \in 1..Len(store') : store'[i].src = "live" /\ store'[i].n = id

\* C8: once the mode is Live again, the reader that left its read loop for the
\* simulation forwards every well-formed record the transport supplies from
\* then on: none of those that arrived after the last simulation leaves the
\* input buffer without being persisted.
C8_LiveRecordsForwardedAfterStop ==
    [][\A i \in 1..Len(buf) :
         (/\ rpc = "sleep_sim" /\ ~simulation_mode
          /\ buf[i].kind = "rec" /\ buf[i].arrived = 1 + Cardinality(Created)
          /\ \A j \in 1..Len(buf') : buf'[j].id # buf[i].id)
           => Persisted(buf[i].id)]_vars

SameProducer(a, b) == a.src = b.src /\ a.task = b.task

C10_HaltLeavesLive ==
    [][\A r \in TaskIds :
         (Alive(r) /\ runners'[r].pc \in {"done", "crashed"}) => ~simulation_mode']_vars

\* ------------------------------------------------- enrich_sample, by itself
\* The values a raw record may carry in each field: the key is absent, null,
\* a string that is no number, or a number (currents and torques in
\* thousandths).
TInputs == {Absent, Null, NonNumeric, Num(10)}
LapInputs == {Absent, Null, NonNumeric, Num(0 - 1), Num(0), Num(3)}
CurrentInputs == {Absent, Null, NonNumeric, Num(0), Num(50000)}
TorqueInputs == {Absent, Null, NonNumeric, Num(0), Num(5000)}

EnrichInputs ==
    {[t |-> t, lap |-> l, A |-> a, torque |-> q] :
        t \in TInputs, l \in LapInputs, a \in CurrentInputs, q \in TorqueInputs}

\* serial_reader has read and decoded one record, any of EnrichInputs
InitEnrich ==
    /\ simulation_mode = FALSE
    /\ simulation_task = NoTask
    /\ clients = {}
    /\ latest_sample = NoSample
    /\ store = <<>>
    /\ rpc = "run"
    /\ ser = TRUE
    /\ \E f \in EnrichInputs :
         buf = <<[kind |-> "rec", raw |-> f, id |-> 1, arrived |-> 1]>>
    /\ rit = NoIter
    /\ nlines = 1
    /\ runners = [r \in TaskIds |-> NoRunner]
    /\ stopping = 0
    /\ response = "none"
    /\ wpc = [w \in Observers |-> "idle"]
    /\ conn = [w \in Observers |-> FALSE]
    /\ inbox = [w \in Observers |-> <<>>]
    /\ budget = [tasks |-> 0, lines |-> 1, obs |-> {}, exclusive |-> FALSE]

\* sample = enrich_sample(raw); latest_sample = sample.  The call's outcome
\* is kept beside its input: the fields it returned, or that it raised.
enrich_call ==
    /\ rpc = "run" /\ buf # <<>>
    /\ \E now \in WallClock :
         latest_sample' = enrich_sample_fields(json_loads(Head(buf)).fields, now)
    /\ rpc' = "returned"
    /\ UNCHANGED <<simulation_mode, simulation_task, clients, store, ser, buf, rit,
                   nlines, runners, stopping, response, wpc, conn, inbox, budget>>

NextEnrich == enrich_call

SpecEnrich == InitEnrich /\ [][NextEnrich]_vars

\* the raw record of the call and what the call returned
EnrichArg == Head(buf).raw
Convertible(x) == x.k = "num"

\* C11: enrich_sample raises on no raw record; its timestamp is the raw one
\* when that converts to an integer and the server time otherwise; its lap is
\* the raw one when that converts to a non-negative integer and 0 otherwise.
C11_EnrichTotal ==
    rpc = "returned"
      => /\ ~latest_sample.raised
         /\ latest_sample.t_ms = (IF Convertible(EnrichArg.t) THEN EnrichArg.t.v
                                  ELSE CHOOSE now \in WallClock : TRUE)
         /\ latest_sample.lap = (IF Convertible(EnrichArg.lap) /\ EnrichArg.lap.v >= 0
                                 THEN EnrichArg.lap.v ELSE 0)

\* the torque C12 expects of a raw record: current x k_t x gearRatio x
\* efficiency, in thousandths
ExpectedTorque(f) ==
    IF f.torque \notin {Absent, Null} THEN f.torque
    ELSE IF Convertible(f.A)
         THEN Num(FMul(f.A.v, FMul(FMul(K_T_NM_PER_AMP, GEAR_RATIO), DRIVETRAIN_EFF)))
         ELSE Null

\* C12: the torque of the sample enrich_sample returns is the raw torque when
\* the record supplies one, whatever the current; otherwise current x k_t x
\* gearRatio x efficiency when the current is a number (27.0 for a current of
\* 50); otherwise none, never zero.
C12_TorqueDerived ==
    (rpc = "returned" /\ ~latest_sample.raised)
      => /\ latest_sample.torque = ExpectedTorque(EnrichArg)
         /\ (EnrichArg.torque = Absent /\ EnrichArg.A = Num(50000))
               => latest_sample.torque = Num(27000)
         /\ (raw_get(EnrichArg.torque) = Null /\ ~Convertible(EnrichArg.A))
               => latest_sample.torque = Null

\* C12 witness: a record with a current of 50 and no torque has been enriched
\* to a torque of 27.0, and one that supplies a torque beside a current has
\* kept it.
C12_Witness ==
    /\ rpc = "returned" /\ ~latest_sample.raised
    /\ \/ EnrichArg.torque = Absent /\ EnrichArg.A = Num(50000)
             /\ latest_sample.torque = Num(27000)
       \/ EnrichArg.torque = Num(5000) /\ EnrichArg.A = Num(50000)
             /\ latest_sample.torque = Num(5000)

\* ------------------------------------------------------- the store, by itself
\* Samples as insert_sample receives them: a timestamp, a lap and the two
\* coordinates, each a number or None.  n is the row's AUTOINCREMENT id.
StoreInputs ==
    {[t_ms |-> t, lap |-> l, lat |-> la, lon |-> lo] :
        t \in {10, 20}, l \in {1, 2, 3}, la \in {Null, Num(40)}, lo \in {Null, Num(74)}}

InitStore ==
    /\ simulation_mode = FALSE
    /\ simulation_task = NoTask
    /\ clients = {}
    /\ latest_sample = NoSample
    /\ store = <<>>
    /\ rpc = "outer"
    /\ ser = FALSE
    /\ buf = <<>>
    /\ rit = NoIter
    /\ nlines = 0
    /\ runners = [r \in TaskIds |-> NoRunner]
    /\ stopping = 0
    /\ response = "none"
    /\ wpc = [w \in Observers |-> "idle"]
    /\ conn = [w \in Observers |-> FALSE]
    /\ inbox = [w \in Observers |-> <<>>]
    /\ budget = [tasks |-> 0, lines |-> 0, obs |-> {}, exclusive |-> FALSE]

\* insert_sample(s) of any sample (INSERT INTO samples ... ; commit)
append ==
    /\ Len(store) < MaxRows
    /\ \E s \in StoreInputs :
         store' = insert_sample([src |-> "live", task |-> 0, n |-> Len(store) + 1,
                                 t_ms |-> s.t_ms, lap |-> s.lap,
                                 lat |-> s.lat, lon |-> s.lon])
    /\ UNCHANGED <<simulation_mode, simulation_task, clients, latest_sample, rpc, ser,
                   buf, rit, nlines, runners, stopping, response, wpc, conn, inbox, budget>>

NextStore == append

SpecStore == InitStore /\ [][NextStore]_vars

\* ORDER BY lap ASC over a set of laps
RECURSIVE OrderAsc(_)
OrderAsc(S) ==
    IF S = {} THEN <<>>
    ELSE LET m == CHOOSE x \in S : \A y \in S : x <= y
         IN <<m>> \o OrderAsc(S \ {m})

\* Mutant of get_laps: neither DISTINCT nor ORDER BY.
get_laps_all == [i \in 1..Len(store) |-> store[i].lap]

\* SELECT DISTINCT lap FROM samples ORDER BY lap ASC
get_laps == OrderAsc({store[i].lap : i \in 1..Len(store)})

\* SELECT MAX(lap): NULL over an empty table, and then 0 is returned
get_latest_lap ==
    IF store = <<>> THEN 0
    ELSE CHOOSE m \in {store[i].lap : i \in 1..Len(store)} :
            \A i \in 1..Len(store) : store[i].lap <= m

\* ORDER BY t_ms ASC of the rows `ids` of one lap.  The query is answered from
\* index idx_samples_lap_t (lap, t_ms), whose entries of equal lap and t_ms
\* follow each other by rowid.
RECURSIVE OrderByTms(_)
OrderByTms(ids) ==
    IF ids = {} THEN <<>>
    ELSE LET first == CHOOSE i \in ids : \A j \in ids :
                         \/ store[i].t_ms < store[j].t_ms
                         \/ store[i].t_ms = store[j].t_ms /\ i <= j
         IN <<store[first]>> \o OrderByTms(ids \ {first})

\* Mutant of get_lap_timeseries: no ORDER BY, the rows come as inserted.
get_lap_timeseries_unordered(lap) ==
    SelectSeq(store, LAMBDA row : row.lap = lap)

\* SELECT ... FROM samples WHERE lap = ? ORDER BY t_ms ASC
get_lap_timeseries(lap) ==
    OrderByTms({i \in 1..Len(store) : store[i].lap = lap})

\* Mutant of get_lap_gps: the longitude is not tested.
get_lap_gps_lat_only(lap) ==
    OrderByTms({i \in 1..Len(store) : store[i].lap = lap /\ store[i].lat # Null})

\* SELECT ... WHERE lap = ? AND lat IS NOT NULL AND lon IS NOT NULL
\* ORDER BY t_ms ASC
get_lap_gps(lap) ==
    OrderByTms({i \in 1..Len(store) :
                  store[i].lap = lap /\ store[i].lat # Null /\ store[i].lon # Null})

Laps == {1, 2, 3}
AppendedLaps == {store[i].lap : i \in 1..Len(store)}
RowsOfLap(lap) == {i \in 1..Len(store) : store[i].lap = lap}
NonDecreasing(rows) ==
    \A k, l \in 1..Len(rows) : k < l => rows[k].t_ms <= rows[l].t_ms

\* C13: get_laps returns the distinct laps of the appended samples, each
\* once, in strictly ascending order; get_latest_lap is the largest appended
\* lap, and 0 when nothing has been appended.
C13_LapsListed ==
    /\ {get_laps[k] : k \in 1..Len(get_laps)} = AppendedLaps
    /\ \A k, l \in 1..Len(get_laps) : k < l => get_laps[k] < get_laps[l]
    /\ store = <<>> => get_latest_lap = 0
    /\ store # <<>> => /\ get_latest_lap \in AppendedLaps
                       /\ \A x \in AppendedLaps : x <= get_latest_lap

\* C13 witness: three samples appended with laps 2, 1, 2 are listed as 1, 2
\* with 2 as the latest lap.
C13_Witness ==
    /\ Len(store) = 3
    /\ store[1].lap = 2 /\ store[2].lap = 1 /\ store[3].lap = 2
    /\ get_laps = <<1, 2>> /\ get_latest_lap = 2

C15_LapPositionsComplete ==
    \A lap \in Laps :
        LET rows == get_lap_gps(lap) IN
        /\ {rows[k] : k \in 1..Len(rows)}
             = {store[i] : i \in {j \in RowsOfLap(lap) :
                                    store[j].lat # Null /\ store[j].lon # Null}}
        /\ Len(rows) = Cardinality({rows[k] : k \in 1..Len(rows)})
        /\ NonDecreasing(rows)

\* C15 witness: a lap holds a sample with both coordinates, one with the
\* latitude alone and one with the longitude alone; the first is returned.
C15_Witness ==
    \E lap \in Laps : \E i, j, k \in RowsOfLap(lap) :
        /\ store[i].lat # Null /\ store[i].lon # Null
        /\ store[j].lat # Null /\ store[j].lon = Null
        /\ store[k].lat = Null /\ store[k].lon # Null
        /\ get_lap_gps(lap) = <<store[i]>>

\* ------------------------------------------------------ claims on the server
\* A publish with iteration state `it` goes on or is over in this step: it
\* does not end by raising, the subscriber set is not changed under it, and
\* when it is over every handle it began with has been attempted.
PublishCompletes(it, inprogress, raised, completed) ==
    inprogress
      => /\ ~raised
         /\ clients' # clients => (completed /\ clients' = Pruned(it))
         /\ completed => it.snap \subseteq it.visited

\* C16: a publish in progress while an observer subscribes or unsubscribes
\* still completes: it attempts every handle subscribed when it began, raises
\* nothing to its producer, and the subscriber set is not changed while it is
\* iterated.
C16_PublishSurvivesMembershipChange ==
    [][/\ PublishCompletes(rit, rpc = "bcast", rpc' = "backoff", rpc' = "run")
       /\ \A r \in TaskIds :
            PublishCompletes(runners[r].it, runners[r].pc = "bcast",
                             runners'[r].pc = "crashed", runners'[r].pc = "sleep")]_vars

\* C17: whenever the mode flag is Simulated (status reports running) a
\* simulation_runner task is alive, so the suppressed Live reader is never
\* the only producer left.
C17_SimulatedHasRunner ==
    get_simulation_status.running => \E r \in TaskIds : Alive(r)

\* C19: a line that arrived while the mode was Simulated leaves the input
\* buffer only by being read by the reader in its read loop, and it is not
\* forwarded.
C19_SimLinesReadAndDropped ==
    [][\A i \in 1..Len(buf) :
         (buf[i].arrived = 0 /\ \A j \in 1..Len(buf') : buf'[j].id # buf[i].id)
           => /\ rpc = "run" /\ i = 1 /\ buf' = Tail(buf)
              /\ ~Persisted(buf[i].id)]_vars

\* C20: every iteration of the reader's loop that takes a non-empty line
\* ends at a yield point, so that other tasks (a control request, a new
\* subscription) get the event loop: also with no subscriber and on a
\* malformed line.
C20_ReaderYieldsEveryIteration ==
    [][(rpc = "run" /\ buf # <<>> /\ buf' = Tail(buf)) => LoopFree']_vars

\* ------------------------------------------- the reader under fair scheduling
\* The environments of the reader's recovery: one simulation, a few lines, no
\* observer, on either kind of platform.
FairBudgets ==
    {[tasks |-> 1, lines |-> MaxLines - 1, obs |-> {}, exclusive |-> e] : e \in BOOLEAN}

InitFair ==
    /\ simulation_mode = FALSE
    /\ simulation_task = NoTask
    /\ clients = {}
    /\ latest_sample = NoSample
    /\ store = <<>>
    /\ rpc = "outer"
    /\ ser = FALSE
    /\ buf = <<>>
    /\ rit = NoIter
    /\ nlines = 0
    /\ runners = [r \in TaskIds |-> NoRunner]
    /\ stopping = 0
    /\ response = "none"
    /\ wpc = [w \in Observers |-> "idle"]
    /\ conn = [w \in Observers |-> FALSE]
    /\ inbox = [w \in Observers |-> <<>>]
    /\ budget \in FairBudgets

\* the steps of the serial_reader task when no observer is subscribed
ReaderStep ==
    \/ reader_wait_sim \/ reader_open \/ reader_wake \/ reader_break
    \/ reader_read_empty \/ reader_read_error \/ reader_read_garbage
    \/ reader_read_record

\* serial.Serial(...) returns a handle
reader_open_ok == reader_open /\ rpc' = "run"

NextFair ==
    \/ ReaderStep
    \/ supply
    \/ \E r \in TaskIds : runner_exit(r) \/ runner_tick(r)
    \/ clock_tick
    \/ start_simulation \/ stop_simulation \/ stop_return

\* The event loop runs a task that is ready (its sleep is over), and an
\* open that can succeed does not fail for ever: the transport is available
\* again.  The environment (lines, requests, the clock) owes nothing.
SpecFair ==
    InitFair /\ [][NextFair]_vars /\ WF_vars(ReaderStep) /\ SF_vars(reader_open_ok)

\* C18: in Live mode, the reader that waits its backoff after a failure
\* opens the transport again and is back in its read loop, unless a
\* simulation starts first.
C18_ReaderRecovers ==
    [](( ~simulation_mode /\ rpc = "backoff") => <>(rpc = "run" \/ simulation_mode))

====
